---- MODULE Spec2Model ----
(***************************************************************************)
(* Borehole trajectory engine of the inclinometry plugin.                  *)
(*                                                                         *)
(* Two revisions of the Well class are modelled side by side:              *)
(*   rev = "old"   src/inclinometry.py with its caller                     *)
(*                 src/inclinometry_calc.py                                *)
(*   rev = "core"  src/core/inclinometry.py with src/core/exporting.py     *)
(*                                                                         *)
(* Numbers.  The store holds floats in the program.  Here every cell is    *)
(* an integer; angles are whole degrees, sines and cosines are taken from  *)
(* a table in thousandths and a product with one is rounded towards zero.  *)
(* Input angles are even, so every half-sum of two angles is a whole       *)
(* degree; the angle functions themselves work on a finer grid with float  *)
(* rounding.  The result of an interpolation is kept exact: each value is  *)
(* a fraction [n, d]; d = 0 and n = 0 is numpy's nan, d = 0 and n # 0 an   *)
(* infinity.                                                               *)
(*                                                                         *)
(* Rows and columns are numbered from 0 as in the program: Cell(arr, i, c) *)
(* is arr[i, c].                                                           *)
(*                                                                         *)
(* Specifications:                                                         *)
(*   Spec        both revisions from the constructor call on               *)
(*   MethodSpec  Spec, and the core revision's methods on the fields its   *)
(*               constructor body sets                                     *)
(*   AngleSpec   get_result_azimuth and get_middle_angle on drawn          *)
(*               arguments                                                 *)
(***************************************************************************)
EXTENDS Integers, Sequences, FiniteSets

\* ------------------------------------------------------------------------
\* Bounds of the model
\* ------------------------------------------------------------------------
MaxStations == 3
MaxPoints == 2
MaxProcRuns == 2
MaxZoneCalls == 2

\* ------------------------------------------------------------------------
\* Program constants
\* ------------------------------------------------------------------------
WGS84_ID == 4326
PULKOVO1942_ID == 4284
MD_TYPE == "MD"
XY_TYPE == "XYZ"
GK_CRS_BASE == 28400

md == 0
incl == 1
az == 2
x_local == 3
y_local == 4
depth == 5
altitude == 6
x_global == 7
y_global == 8
ColumnIndexes_length == 9

\* ------------------------------------------------------------------------
\* Arithmetic helpers
\* ------------------------------------------------------------------------
Abs(n) == IF n < 0 THEN -n ELSE n

Min2(a, b) == IF a <= b THEN a ELSE b

\* float division followed by int(): the quotient truncated towards zero
TruncDiv(a, b) == IF a >= 0 THEN a \div b ELSE -((-a) \div b)

SinTable ==
  << 0, 17, 35, 52, 70, 87, 105, 122, 139, 156, 174, 191, 208, 225, 242,
     259, 276, 292, 309, 326, 342, 358, 375, 391, 407, 423, 438, 454, 469,
     485, 500, 515, 530, 545, 559, 574, 588, 602, 616, 629, 643, 656, 669,
     682, 695, 707, 719, 731, 743, 755, 766, 777, 788, 799, 809, 819, 829,
     839, 848, 857, 866, 875, 883, 891, 899, 906, 914, 921, 927, 934, 940,
     946, 951, 956, 961, 966, 970, 974, 978, 982, 985, 988, 990, 993, 995,
     996, 998, 999, 999, 1000, 1000 >>

\* sin(radians(a)) in thousandths, a in whole degrees
Sin(a) ==
  LET r == a % 360
  IN IF r <= 90 THEN SinTable[r + 1]
     ELSE IF r <= 180 THEN SinTable[180 - r + 1]
     ELSE IF r <= 270 THEN -SinTable[r - 180 + 1]
     ELSE -SinTable[360 - r + 1]

\* cos(radians(a)) in thousandths
Cos(a) == Sin(a + 90)

\* v * t for a trigonometric value t in thousandths
TrigMul(v, t) == TruncDiv(v * t, 1000)

RECURSIVE SqrtFrom(_, _)
SqrtFrom(n, r) == IF (r + 1) * (r + 1) > n THEN r ELSE SqrtFrom(n, r + 1)

\* n ** 0.5 (exact on the squares the inputs produce, rounded down otherwise)
Sqrt(n) == SqrtFrom(n, 0)

\* ------------------------------------------------------------------------
\* Store access
\* ------------------------------------------------------------------------
Cell(arr, i, c) == arr[i + 1][c + 1]

Shape0(arr) == Len(arr)

SetCell(row, c, v) == [row EXCEPT ![c + 1] = v]

ZeroRow == [c \in 1..ColumnIndexes_length |-> 0]

\* ------------------------------------------------------------------------
\* Float arithmetic of the angle functions
\* ------------------------------------------------------------------------
\* An angle handed to get_result_azimuth or get_middle_angle is a count of
\* ticks, 1024 to the degree.  The doubles are scaled down to a binary
\* float with a significand of twelve bits whose grid ends at one tick:
\* below 4 degrees every tick is a value, in [256, 512) degrees every eighth
\* of a degree.  Whole degrees up to 4096 are values, and so are the halves
\* of their sums, as they are for doubles.
Deg(d) == d * 1024

InDegrees(t) == t \div 1024

\* distance of the neighbouring values of the grid at magnitude n
RECURSIVE Ulp(_)
Ulp(n) == IF n < 4096 THEN 1 ELSE 2 * Ulp(n \div 2)

\* the result of an arithmetic operation, rounded to the nearest value of
\* the grid, a tie to the even one
Fl(v) ==
  LET u == Ulp(Abs(v))
      q == Abs(v) \div u
      r == Abs(v) % u
      up == (2 * r > u) \/ (2 * r = u /\ q % 2 = 1)
      m == (IF up THEN q + 1 ELSE q) * u
  IN IF v < 0 THEN -m ELSE m

\* v / 2: exact, but for an odd count of ticks at the end of the grid
Half(v) ==
  IF v % 2 = 0 THEN v \div 2
  ELSE LET lo == (v - 1) \div 2
       IN IF lo % 2 = 0 THEN lo ELSE lo + 1

\* the float next to n tenths of a degree
Tenths(n) == Fl((2 * Deg(n) + 10) \div 20)

\* C fmod: the remainder has the sign of x and is exact
Fmod(x, m) == IF x >= 0 THEN x % m ELSE -((-x) % m)

\* x % m of a Python or numpy float, m > 0: fmod, and m added to a negative
\* remainder; the sum is rounded like any other
FloatMod(x, m) ==
  LET f == Fmod(x, m)
  IN IF f < 0 THEN Fl(f + m) ELSE f

\* ------------------------------------------------------------------------
\* Angle arithmetic
\* ------------------------------------------------------------------------
get_result_azimuth(az_value) ==
  LET r == FloatMod(az_value, Deg(360))
  IN IF r >= 0 THEN r ELSE Fl(Deg(360) + r)

\* a seam branch that starts from alpha instead of the smaller angle
get_middle_angle_from_alpha(alpha, beta) ==
  IF Abs(Fl(alpha - beta)) <= Deg(180)
  THEN Half(Fl(alpha + beta))
  ELSE get_result_azimuth(
         Fl(alpha - Half(Fl(Deg(360) - Abs(Fl(alpha - beta))))))

get_middle_angle(alpha, beta) ==
  IF Abs(Fl(alpha - beta)) <= Deg(180)
  THEN Half(Fl(alpha + beta))
  ELSE get_result_azimuth(
         Fl(Min2(alpha, beta) - Half(Fl(Deg(360) - Abs(Fl(alpha - beta))))))

\* ------------------------------------------------------------------------
\* Coordinate transform and zone resolution
\* ------------------------------------------------------------------------
\* Stand-in for QgsCoordinateTransform.transform: a fixed deterministic map.
\* Geographic coordinates move by two degrees between the two datums; a zone
\* CRS 28400 + k gets a false easting per zone and the offset from the
\* zone's central meridian.
Projection(x, y, source_crs_id, target_crs_id) ==
  LET gx == IF source_crs_id = WGS84_ID THEN x + 2 ELSE x
      k == target_crs_id - GK_CRS_BASE
  IN IF target_crs_id = PULKOVO1942_ID
     THEN <<gx, y>>
     ELSE <<1000 * k + 500 + 10 * (gx - (6 * k - 3)), 100 * y>>

transform_xy_coordinates(x, y, source_crs_id, target_crs_id) ==
  IF source_crs_id = target_crs_id
  THEN <<x, y>>
  ELSE Projection(x, y, source_crs_id, target_crs_id)

\* the value gk_zone_index / get_gk_zone_index computes for a head
ZoneIndexOf(head, crs) ==
  LET p == transform_xy_coordinates(head[1], head[2], crs, PULKOVO1942_ID)
  IN TruncDiv(p[1] + 6, 6)

CrsIdOf(zone) == GK_CRS_BASE + zone

\* meridian_correction for a head, given the zone index the property reads
MeridianCorrectionOf(head, crs, zone) ==
  LET central_meridian == 6 * zone - 3
      p == transform_xy_coordinates(head[1], head[2], crs, PULKOVO1942_ID)
  IN TrigMul(p[1] - central_meridian, Sin(p[2]))

TotalAngleCorrectionOf(declination, head, crs, zone) ==
  declination - MeridianCorrectionOf(head, crs, zone)

\* transform invocations made by k successive reads of the old revision's
\* gk_zone_index property, whose cache uses 0 for "not computed yet"
ZoneCallsOld(cache, zone, k) ==
  IF k = 0 \/ cache # 0 THEN 0
  ELSE IF zone # 0 THEN 1
  ELSE k

\* ------------------------------------------------------------------------
\* Well.__init__: the station store
\* ------------------------------------------------------------------------
StoreRow(processing_type, raw, first, alt) ==
  LET base == IF processing_type = MD_TYPE
              THEN [ZeroRow EXCEPT ![md + 1] = raw[1],
                                   ![incl + 1] = raw[2],
                                   ![az + 1] = raw[3]]
              ELSE [ZeroRow EXCEPT ![x_local + 1] = raw[1],
                                   ![y_local + 1] = raw[2],
                                   ![depth + 1] = raw[3]]
  IN IF first THEN SetCell(base, altitude, alt) ELSE base

StoreInit(processing_type, inclination_data, alt) ==
  [i \in 1..Len(inclination_data) |->
     StoreRow(processing_type, inclination_data[i], i = 1, alt)]

\* ------------------------------------------------------------------------
\* Survey-angle integration
\* ------------------------------------------------------------------------
CorrectAzimuths(arr, correction) ==
  [i \in 1..Len(arr) |->
     SetCell(arr[i], az,
             InDegrees(get_result_azimuth(Deg(arr[i][az + 1] + correction))))]

\* a step that takes the sine of the inclination for the vertical part and
\* the cosine for the horizontal part
MdStepSwapped(prev, cur, gk_head, head_alt) ==
  LET mid_az == InDegrees(get_middle_angle(Deg(prev[az + 1]), Deg(cur[az + 1])))
      mid_incl == (cur[incl + 1] + prev[incl + 1]) \div 2
      delta_md == cur[md + 1] - prev[md + 1]
      dx == TrigMul(TrigMul(delta_md, Cos(mid_incl)), Sin(mid_az))
      dy == TrigMul(TrigMul(delta_md, Cos(mid_incl)), Cos(mid_az))
      dz == TrigMul(delta_md, Sin(mid_incl))
      xl == prev[x_local + 1] + dx
      yl == prev[y_local + 1] + dy
      dp == prev[depth + 1] + dz
  IN [cur EXCEPT ![x_local + 1] = xl,
                 ![y_local + 1] = yl,
                 ![x_global + 1] = xl + gk_head[1],
                 ![y_global + 1] = yl + gk_head[2],
                 ![depth + 1] = dp,
                 ![altitude + 1] = head_alt - dp]

\* one pass of the station-to-station loop: row i from the finished row i-1
MdStep(prev, cur, gk_head, head_alt) ==
  LET mid_az == InDegrees(get_middle_angle(Deg(prev[az + 1]), Deg(cur[az + 1])))
      mid_incl == (cur[incl + 1] + prev[incl + 1]) \div 2
      delta_md == cur[md + 1] - prev[md + 1]
      dx == TrigMul(TrigMul(delta_md, Sin(mid_incl)), Sin(mid_az))
      dy == TrigMul(TrigMul(delta_md, Sin(mid_incl)), Cos(mid_az))
      dz == TrigMul(delta_md, Cos(mid_incl))
      xl == prev[x_local + 1] + dx
      yl == prev[y_local + 1] + dy
      dp == prev[depth + 1] + dz
  IN [cur EXCEPT ![x_local + 1] = xl,
                 ![y_local + 1] = yl,
                 ![x_global + 1] = xl + gk_head[1],
                 ![y_global + 1] = yl + gk_head[2],
                 ![depth + 1] = dp,
                 ![altitude + 1] = head_alt - dp]

RECURSIVE MdLoop(_, _, _, _)
MdLoop(arr, i, gk_head, head_alt) ==
  IF i > Len(arr) THEN arr
  ELSE MdLoop([arr EXCEPT ![i] = MdStep(arr[i - 1], arr[i], gk_head, head_alt)],
              i + 1, gk_head, head_alt)

calc_inclinometry_by_md(arr, correction, gk_head, head_alt) ==
  LET a1 == CorrectAzimuths(arr, correction)
      a2 == [a1 EXCEPT ![1] = [a1[1] EXCEPT ![x_global + 1] = gk_head[1],
                                            ![y_global + 1] = gk_head[2]]]
  IN MdLoop(a2, 2, gk_head, head_alt)

\* ------------------------------------------------------------------------
\* Displacement integration
\* ------------------------------------------------------------------------
\* a zero shift that leaves the depth column alone
ZeroShiftXY(arr) ==
  [i \in 1..Len(arr) |->
     [arr[i] EXCEPT ![x_local + 1] = arr[i][x_local + 1] - arr[1][x_local + 1],
                    ![y_local + 1] = arr[i][y_local + 1] - arr[1][y_local + 1]]]

ZeroShift(arr) ==
  [i \in 1..Len(arr) |->
     [arr[i] EXCEPT ![x_local + 1] = arr[i][x_local + 1] - arr[1][x_local + 1],
                    ![y_local + 1] = arr[i][y_local + 1] - arr[1][y_local + 1],
                    ![depth + 1] = arr[i][depth + 1] - arr[1][depth + 1]]]

\* a step whose length leaves the vertical difference out
XyzStepFlat(revision, prev, cur, gk_head, head_alt, rotate_angle) ==
  LET dx == cur[x_local + 1] - prev[x_local + 1]
      dy == cur[y_local + 1] - prev[y_local + 1]
      delta_md == Sqrt(dx * dx + dy * dy)
      dx_old == cur[x_local + 1]
      dy_old == cur[y_local + 1]
      dx_new == TrigMul(dx_old, Cos(rotate_angle)) - TrigMul(dy_old, Sin(rotate_angle))
      dy_new == TrigMul(dx_old, Sin(rotate_angle)) + TrigMul(dy_old, Cos(rotate_angle))
      moved == [cur EXCEPT ![md + 1] = prev[md + 1] + delta_md,
                           ![x_global + 1] = gk_head[1] + dx_new,
                           ![y_global + 1] = gk_head[2] + dy_new]
  IN IF revision = "core"
     THEN [moved EXCEPT ![altitude + 1] = head_alt - cur[depth + 1]]
     ELSE moved

\* the old revision's loop body ends before the altitude assignment
XyzStep(revision, prev, cur, gk_head, head_alt, rotate_angle) ==
  LET dx == cur[x_local + 1] - prev[x_local + 1]
      dy == cur[y_local + 1] - prev[y_local + 1]
      dz == cur[depth + 1] - prev[depth + 1]
      delta_md == Sqrt(dx * dx + dy * dy + dz * dz)
      dx_old == cur[x_local + 1]
      dy_old == cur[y_local + 1]
      dx_new == TrigMul(dx_old, Cos(rotate_angle)) - TrigMul(dy_old, Sin(rotate_angle))
      dy_new == TrigMul(dx_old, Sin(rotate_angle)) + TrigMul(dy_old, Cos(rotate_angle))
      moved == [cur EXCEPT ![md + 1] = prev[md + 1] + delta_md,
                           ![x_global + 1] = gk_head[1] + dx_new,
                           ![y_global + 1] = gk_head[2] + dy_new]
  IN IF revision = "core"
     THEN [moved EXCEPT ![altitude + 1] = head_alt - cur[depth + 1]]
     ELSE moved

RECURSIVE XyzLoop(_, _, _, _, _, _)
XyzLoop(revision, arr, i, gk_head, head_alt, rotate_angle) ==
  IF i > Len(arr) THEN arr
  ELSE XyzLoop(revision,
               [arr EXCEPT ![i] = XyzStep(revision, arr[i - 1], arr[i], gk_head,
                                          head_alt, rotate_angle)],
               i + 1, gk_head, head_alt, rotate_angle)

calc_inclinometry_by_xyz(revision, arr, gk_head, head_alt, rotate_angle) ==
  LET a1 == ZeroShift(arr)
      a2 == [a1 EXCEPT ![1] = [a1[1] EXCEPT ![x_global + 1] = gk_head[1],
                                            ![y_global + 1] = gk_head[2]]]
  IN XyzLoop(revision, a2, 2, gk_head, head_alt, rotate_angle)

\* Well.processing: the calculator the mode selects, on the current store
processing(revision, processing_type, arr, head, crs, declination) ==
  LET zone == ZoneIndexOf(head, crs)
      gk_head == transform_xy_coordinates(head[1], head[2], crs, CrsIdOf(zone))
      mc == MeridianCorrectionOf(head, crs, zone)
  IN IF processing_type = MD_TYPE
     THEN calc_inclinometry_by_md(arr, declination - mc, gk_head, head[3])
     ELSE calc_inclinometry_by_xyz(revision, arr, gk_head, head[3], mc)

\* ------------------------------------------------------------------------
\* Well.interpolate_data
\* ------------------------------------------------------------------------
Frac(num, den) == [n |-> num, d |-> den]

\* np.array([]): the "no value" result
NoValue == << >>

column_indexes == <<md, x_global, y_global, depth, altitude>>

AllColumns == <<md, incl, az, x_local, y_local, depth, altitude, x_global, y_global>>

MdColumn(arr) == {arr[i][md + 1] : i \in 1..Len(arr)}

SetMin(S) == CHOOSE m \in S : \A o \in S : m <= o

SetMax(S) == CHOOSE m \in S : \A o \in S : m >= o

\* the outcome of a call: a returned value, or the exception it raised
Returned(v) == [raised |-> "none", value |-> v]

Raise(e) == [raised |-> e, value |-> << >>]

\* a range check that forgets the lower end
InRangeUpperOnly(arr, md_value) == md_value <= SetMax(MdColumn(arr))

\* min_md <= md_value <= max_md over the whole measured-depth column
InRange(arr, md_value) ==
  SetMin(MdColumn(arr)) <= md_value /\ md_value <= SetMax(MdColumn(arr))

\* arr[index, columns]: the stored values, untouched
TakeRow(arr, index, columns) ==
  [k \in 1..Len(columns) |-> Frac(Cell(arr, index, columns[k]), 1)]

\* a blend whose coefficient divides by md[bottom] alone
BlendNoOffset(arr, top_index, bottom_index, md_value, columns) ==
  LET a == md_value - Cell(arr, top_index, md)
      b == Cell(arr, bottom_index, md)
  IN [k \in 1..Len(columns) |->
        LET t == Cell(arr, top_index, columns[k])
            diff == Cell(arr, bottom_index, columns[k]) - t
        IN IF b = 0 THEN Frac(a * diff, 0)
           ELSE Frac(t * b + a * diff, b)]

\* top + (md_value - md[top]) / (md[bottom] - md[top]) * (bottom - top) for
\* the listed columns; the quotient of two numpy floats with a zero divisor
\* is nan or an infinity, it does not raise
Blend(arr, top_index, bottom_index, md_value, columns) ==
  LET a == md_value - Cell(arr, top_index, md)
      b == Cell(arr, bottom_index, md) - Cell(arr, top_index, md)
  IN [k \in 1..Len(columns) |->
        LET t == Cell(arr, top_index, columns[k])
            diff == Cell(arr, bottom_index, columns[k]) - t
        IN IF b = 0 THEN Frac(a * diff, 0)
           ELSE Frac(t * b + a * diff, b)]

\* old revision: top and bottom by max() and min() over the row indexes;
\* max() or min() of an empty generator raises ValueError
interpolate_data_old(arr, md_value) ==
  IF ~InRange(arr, md_value)
  THEN Returned(NoValue)
  ELSE LET tops == {i \in 0..(Shape0(arr) - 1) : Cell(arr, i, md) <= md_value}
           bottoms == {i \in 0..(Shape0(arr) - 1) : Cell(arr, i, md) >= md_value}
       IN IF tops = {} \/ bottoms = {}
          THEN Raise("ValueError")
          ELSE LET top_index == SetMax(tops)
                   bottom_index == SetMin(bottoms)
               IN IF top_index = bottom_index
                  THEN Returned(TakeRow(arr, top_index, column_indexes))
                  ELSE Returned(Blend(arr, top_index, bottom_index, md_value,
                                      column_indexes))

\* core revision: the scan; the result is <<top_index, bottom_index>>
RECURSIVE Scan(_, _, _, _)
Scan(arr, md_value, i, top_index) ==
  IF i >= Shape0(arr) THEN <<top_index, 0>>
  ELSE IF Cell(arr, i, md) < md_value THEN Scan(arr, md_value, i + 1, i)
  ELSE IF Cell(arr, i, md) = md_value THEN <<i, i>>
  ELSE <<top_index, i>>

\* core revision: the interpolated branch returns the whole nine-column row
interpolate_data_core(arr, md_value) ==
  IF ~InRange(arr, md_value)
  THEN Returned(NoValue)
  ELSE LET tb == Scan(arr, md_value, 0, 0)
       IN IF tb[1] = tb[2]
          THEN Returned(TakeRow(arr, tb[1], column_indexes))
          ELSE Returned(Blend(arr, tb[1], tb[2], md_value, AllColumns))

interpolate_data(revision, arr, md_value) ==
  IF revision = "old" THEN interpolate_data_old(arr, md_value)
  ELSE interpolate_data_core(arr, md_value)

\* ------------------------------------------------------------------------
\* Interpolation at points
\* ------------------------------------------------------------------------
\* old revision, get_interpolate_points_data: one row per pair, the label
\* followed by whatever interpolate_data returned
RECURSIVE get_interpolate_points_data(_, _, _, _)
get_interpolate_points_data(points_data, arr, k, result) ==
  IF k > Len(points_data) THEN [raised |-> "none", rows |-> result]
  ELSE LET t == interpolate_data_old(arr, points_data[k][2])
       IN IF t.raised # "none" THEN [raised |-> t.raised, rows |-> << >>]
          ELSE get_interpolate_points_data(points_data, arr, k + 1,
                 Append(result, [label |-> points_data[k][1], fields |-> t.value]))

\* bool() of a numpy array: False when empty (with a deprecation warning),
\* the element's truth when it has one element, ValueError otherwise
ArrayTruth(data) ==
  IF Len(data) = 0 THEN "False"
  ELSE IF Len(data) = 1 THEN (IF data[1].n # 0 THEN "True" ELSE "False")
  ELSE "ValueError"

\* core revision, create_points_interpolation_file: the rows collected up to
\* pair k, or the exception that ends the export
RECURSIVE create_points_interpolation_file(_, _, _, _)
create_points_interpolation_file(points_data, arr, k, result_data) ==
  IF k > Len(points_data) THEN [raised |-> "none", rows |-> result_data]
  ELSE LET t == interpolate_data_core(arr, points_data[k][2])
           interpolation_data == t.value
           truth == ArrayTruth(interpolation_data)
       IN IF t.raised # "none" THEN [raised |-> t.raised, rows |-> << >>]
          ELSE IF truth = "ValueError" THEN [raised |-> "ValueError", rows |-> << >>]
          ELSE IF truth = "False"
          THEN create_points_interpolation_file(points_data, arr, k + 1, result_data)
          ELSE IF \E c \in 1..Len(column_indexes) :
                     column_indexes[c] >= Len(interpolation_data)
          THEN [raised |-> "IndexError", rows |-> << >>]
          ELSE create_points_interpolation_file(points_data, arr, k + 1,
                 Append(result_data,
                        [label |-> points_data[k][1],
                         fields |-> [c \in 1..Len(column_indexes) |->
                                       interpolation_data[column_indexes[c] + 1]]]))

points_export(revision, points_data, arr) ==
  IF revision = "old"
  THEN get_interpolate_points_data(points_data, arr, 1, << >>)
  ELSE create_points_interpolation_file(points_data, arr, 1, << >>)

\* ------------------------------------------------------------------------
\* Export projection
\* ------------------------------------------------------------------------
export_column_indexes == <<md, incl, az, x_global, y_global, depth, altitude>>

\* an export that takes the correction back and forgets the declination
get_export_array_without_declination(type, arr, total_angle_correction, declination) ==
  [i \in 1..Len(arr) |->
     LET row == [k \in 1..Len(export_column_indexes) |->
                   arr[i][export_column_indexes[k] + 1]]
     IN IF type = MD_TYPE
        THEN [row EXCEPT ![az + 1] =
                InDegrees(get_result_azimuth(Deg(row[az + 1] - total_angle_correction)))]
        ELSE row]

\* get_export_array of the old revision and the array that
\* create_inclinometry_txt_file of the core revision writes: a copy of seven
\* columns, the azimuth (column 2 of the copy as of the store) recomputed in
\* survey-angle mode
get_export_array(type, arr, total_angle_correction, declination) ==
  [i \in 1..Len(arr) |->
     LET row == [k \in 1..Len(export_column_indexes) |->
                   arr[i][export_column_indexes[k] + 1]]
     IN IF type = MD_TYPE
        THEN [row EXCEPT ![az + 1] =
                InDegrees(get_result_azimuth(
                  Deg(row[az + 1] - total_angle_correction + declination)))]
        ELSE row]

\* the polyline of the horizontal trace: x_global and y_global of every row
horizontal_trace(arr) ==
  [i \in 1..Len(arr) |-> <<arr[i][x_global + 1], arr[i][y_global + 1]>>]

\* ------------------------------------------------------------------------
\* Inputs
\* ------------------------------------------------------------------------
\* head position, source CRS and declination of a well site
Sites ==
  { [x |-> 45, y |-> 30, altitude |-> 300, crs_id |-> WGS84_ID, declination |-> 8],
    [x |-> -1, y |-> 30, altitude |-> 300, crs_id |-> PULKOVO1942_ID, declination |-> 0],
    [x |-> -15, y |-> 30, altitude |-> 300, crs_id |-> PULKOVO1942_ID, declination |-> 8] }

MdValues == {0, 100, 200}

\* (inclination, azimuth) of a survey station
Angles == {<<0, 10>>, <<0, 350>>, <<60, 350>>}

MdRows == {<<m, a[1], a[2]>> : m \in MdValues, a \in Angles}

\* (x, y, z) of a displacement station; the mutual distances are 50, 120, 130
XyzRows == {<<10, 10, 20>>, <<40, 50, 20>>, <<40, 50, 140>>}

SeqsUpTo(S, n) == UNION {[1..k -> S] : k \in 1..n}

NonDecreasingMd(data) == \A i \in 1..(Len(data) - 1) : data[i][1] <= data[i + 1][1]

MdData == {d \in SeqsUpTo(MdRows, MaxStations) : NonDecreasingMd(d)}

XyzData == SeqsUpTo(XyzRows, MaxStations)

Types == {MD_TYPE, XY_TYPE, "LAS"}

DataFor(type) == IF type = MD_TYPE THEN MdData ELSE XyzData

MdQueries == {-10, 50, 100, 150, 250}

PointMds == {50, 250}

Labels == <<"P1", "P2", "P3", "P4">>

PointsData ==
  UNION {{[k \in 1..n |-> <<Labels[k], f[k]>>] : f \in [1..n -> PointMds]} : n \in 1..MaxPoints}

\* ------------------------------------------------------------------------
\* State
\* ------------------------------------------------------------------------
VARIABLES
  rev,                  \* revision of the Well class in use
  phase,                \* "absent", "constructed", "processed" or "raised"
  raised,               \* exception that ended the constructor, or "none"
  args,                 \* arguments the constructor was called with
  well_head,            \* self.__well_head
  crs_id,               \* self.__crs_id
  processing_type,      \* self.__processing_type / self.__incl_type
  magnetic_declination, \* self.__magnetic_declination
  incl_data,            \* self.__incl_data
  gk_zone_index,        \* self.__gk_zone_index
  gk_crs_id,            \* self.__gk_crs_id
  zone_calls,           \* transform invocations made for zone resolution
  proc_runs,            \* completed runs of processing()
  ret                   \* the last query and what it returned

vars == <<rev, phase, raised, args, well_head, crs_id, processing_type,
          magnetic_declination, incl_data, gk_zone_index, gk_crs_id,
          zone_calls, proc_runs, ret>>

well_fields == <<well_head, crs_id, processing_type, magnetic_declination,
                 incl_data, gk_zone_index, gk_crs_id>>

NoRet == [op |-> "none", arg |-> 0, val |-> 0]

Unset == "unset"

Init ==
  /\ rev \in {"old", "core"}
  /\ phase = "absent"
  /\ raised = "none"
  /\ args = Unset
  /\ well_head = Unset
  /\ crs_id = Unset
  /\ processing_type = Unset
  /\ magnetic_declination = Unset
  /\ incl_data = << >>
  /\ gk_zone_index = Unset
  /\ gk_crs_id = Unset
  /\ zone_calls = 0
  /\ proc_runs = 0
  /\ ret = NoRet

\* ------------------------------------------------------------------------
\* Well.__init__
\* ------------------------------------------------------------------------
HeadOf(site) == <<site.x, site.y, site.altitude>>

CtorArgs(site, type, data) ==
  [x |-> site.x, y |-> site.y, altitude |-> site.altitude, crs_id |-> site.crs_id,
   magnetic_declination |-> site.declination, processing_type |-> type,
   inclination_data |-> data]

\* reads of gk_zone_index in one run of processing() of the old revision:
\* one per meridian_correction, one more when gk_crs_id is not cached yet
ProcessingZoneReads(type, n, crs_cache) ==
  (IF type = MD_TYPE THEN n ELSE 1) + (IF crs_cache = 0 THEN 1 ELSE 0)

\* a declination that is kept in every mode
DeclinationKept(type, declination) == declination

\* self.__magnetic_declination: the declination passed in survey-angle mode,
\* 0 otherwise
DeclinationFor(type, declination) == IF type = MD_TYPE THEN declination ELSE 0

\* a constructor that checks the mode only after it has filled the store
WellInitLate(site, type, data) ==
  /\ phase = "absent"
  /\ args' = CtorArgs(site, type, data)
  /\ well_head' = HeadOf(site)
  /\ crs_id' = site.crs_id
  /\ UNCHANGED <<rev, zone_calls, proc_runs, ret>>
  /\ incl_data' = StoreInit(type, data, site.altitude)
  /\ magnetic_declination' = DeclinationFor(type, site.declination)
  /\ IF type \notin {MD_TYPE, XY_TYPE}
     THEN /\ phase' = "raised"
          /\ raised' = "DataTypeError"
          /\ UNCHANGED <<processing_type, gk_zone_index, gk_crs_id>>
     ELSE /\ processing_type' = type
          /\ gk_zone_index' = 0
          /\ gk_crs_id' = 0
          /\ phase' = "constructed"
          /\ raised' = "none"

\* ColumnIndexes.size in the core revision is a property read on the class:
\* np.zeros gets a property object as a dimension and raises TypeError
WellInit(site, type, data) ==
  /\ phase = "absent"
  /\ args' = CtorArgs(site, type, data)
  /\ well_head' = HeadOf(site)
  /\ crs_id' = site.crs_id
  /\ UNCHANGED <<rev, zone_calls, proc_runs, ret>>
  /\ IF type \notin {MD_TYPE, XY_TYPE}
     THEN /\ phase' = "raised"
          /\ raised' = "DataTypeError"
          /\ UNCHANGED <<processing_type, magnetic_declination, incl_data,
                         gk_zone_index, gk_crs_id>>
     ELSE /\ processing_type' = type
          /\ magnetic_declination' = DeclinationFor(type, site.declination)
          /\ IF rev = "old"
             THEN /\ incl_data' = StoreInit(type, data, site.altitude)
                  /\ gk_zone_index' = 0
                  /\ gk_crs_id' = 0
                  /\ phase' = "constructed"
                  /\ raised' = "none"
             ELSE /\ phase' = "raised"
                  /\ raised' = "TypeError"
                  /\ UNCHANGED <<incl_data, gk_zone_index, gk_crs_id>>

Construct ==
  \E site \in Sites, type \in Types : \E data \in DataFor(type) :
    WellInit(site, type, data)

\* ------------------------------------------------------------------------
\* Well.processing
\* ------------------------------------------------------------------------
Processing ==
  /\ phase \in {"constructed", "processed"}
  /\ proc_runs < MaxProcRuns
  /\ incl_data' = processing(rev, processing_type, incl_data, well_head, crs_id,
                             magnetic_declination)
  /\ LET n == Shape0(incl_data)
         zone == ZoneIndexOf(well_head, crs_id)
         zc == IF rev = "old"
               THEN ZoneCallsOld(gk_zone_index, zone,
                                 ProcessingZoneReads(processing_type, n, gk_crs_id))
               ELSE 0
     IN /\ zone_calls' = zone_calls + zc
        /\ gk_zone_index' = IF rev = "old" THEN zone ELSE gk_zone_index
        /\ gk_crs_id' = IF rev = "old" THEN CrsIdOf(zone) ELSE gk_crs_id
  /\ phase' = "processed"
  /\ proc_runs' = proc_runs + 1
  /\ ret' = [op |-> "processing", arg |-> 0, val |-> 0]
  /\ UNCHANGED <<rev, raised, args, well_head, crs_id, processing_type,
                 magnetic_declination>>

\* ------------------------------------------------------------------------
\* Queries
\* ------------------------------------------------------------------------
Alive == phase \in {"constructed", "processed"}

Interpolate ==
  /\ Alive
  /\ \E md_value \in MdQueries :
       ret' = [op |-> "interpolate_data", arg |-> md_value,
               val |-> interpolate_data(rev, incl_data, md_value)]
  /\ UNCHANGED <<rev, phase, raised, args, well_fields, zone_calls, proc_runs>>

\* the plugin exports after processing()
ExportPoints ==
  /\ phase = "processed"
  /\ \E points_data \in PointsData :
       ret' = [op |-> "points", arg |-> points_data,
               val |-> points_export(rev, points_data, incl_data)]
  /\ UNCHANGED <<rev, phase, raised, args, well_fields, zone_calls, proc_runs>>

\* the gk_zone_index property
ReadZoneIndex ==
  /\ Alive
  /\ zone_calls < MaxZoneCalls
  /\ LET zone == ZoneIndexOf(well_head, crs_id)
         zc == IF rev = "old" THEN ZoneCallsOld(gk_zone_index, zone, 1) ELSE 0
     IN /\ gk_zone_index' = IF rev = "old" /\ gk_zone_index = 0 THEN zone
                            ELSE gk_zone_index
        /\ zone_calls' = zone_calls + zc
        /\ ret' = [op |-> "gk_zone_index", arg |-> 0, val |-> gk_zone_index']
  /\ UNCHANGED <<rev, phase, raised, args, well_head, crs_id, processing_type,
                 magnetic_declination, incl_data, gk_crs_id, proc_runs>>

\* the gk_crs_id property
ReadCrsId ==
  /\ Alive
  /\ zone_calls < MaxZoneCalls
  /\ LET zone == ZoneIndexOf(well_head, crs_id)
         miss == rev = "old" /\ gk_crs_id = 0
         zc == IF miss THEN ZoneCallsOld(gk_zone_index, zone, 1) ELSE 0
     IN /\ gk_zone_index' = IF miss /\ gk_zone_index = 0 THEN zone ELSE gk_zone_index
        /\ gk_crs_id' = IF miss THEN CrsIdOf(gk_zone_index') ELSE gk_crs_id
        /\ zone_calls' = zone_calls + zc
        /\ ret' = [op |-> "gk_crs_id", arg |-> 0, val |-> gk_crs_id']
  /\ UNCHANGED <<rev, phase, raised, args, well_head, crs_id, processing_type,
                 magnetic_declination, incl_data, proc_runs>>

\* the meridian_correction property
ReadMeridianCorrection ==
  /\ Alive
  /\ zone_calls < MaxZoneCalls
  /\ LET zone == ZoneIndexOf(well_head, crs_id)
         zc == IF rev = "old" THEN ZoneCallsOld(gk_zone_index, zone, 1) ELSE 0
     IN /\ gk_zone_index' = IF rev = "old" /\ gk_zone_index = 0 THEN zone
                            ELSE gk_zone_index
        /\ zone_calls' = zone_calls + zc
        /\ ret' = [op |-> "meridian_correction", arg |-> 0,
                   val |-> MeridianCorrectionOf(well_head, crs_id, gk_zone_index')]
  /\ UNCHANGED <<rev, phase, raised, args, well_head, crs_id, processing_type,
                 magnetic_declination, incl_data, gk_crs_id, proc_runs>>

\* the total_angle_correction property
ReadTotalAngleCorrection ==
  /\ Alive
  /\ zone_calls < MaxZoneCalls
  /\ LET zone == ZoneIndexOf(well_head, crs_id)
         zc == IF rev = "old" THEN ZoneCallsOld(gk_zone_index, zone, 1) ELSE 0
     IN /\ gk_zone_index' = IF rev = "old" /\ gk_zone_index = 0 THEN zone
                            ELSE gk_zone_index
        /\ zone_calls' = zone_calls + zc
        /\ ret' = [op |-> "total_angle_correction", arg |-> 0,
                   val |-> TotalAngleCorrectionOf(magnetic_declination, well_head,
                                                  crs_id, gk_zone_index')]
  /\ UNCHANGED <<rev, phase, raised, args, well_head, crs_id, processing_type,
                 magnetic_declination, incl_data, gk_crs_id, proc_runs>>

\* reads of gk_zone_index in one export of the old revision: one for
\* meridian_correction, two for the header, one per row in survey-angle mode
ExportZoneReads(type, n) == 3 + (IF type = MD_TYPE THEN n ELSE 0)

\* an export whose rows are written into the store itself
ExportInclinationInPlace ==
  /\ phase = "processed"
  /\ LET zone == ZoneIndexOf(well_head, crs_id)
         zc == IF rev = "old"
               THEN ZoneCallsOld(gk_zone_index, zone,
                                 ExportZoneReads(processing_type, Shape0(incl_data)))
               ELSE 0
         result_arr == get_export_array(
                         processing_type, incl_data,
                         TotalAngleCorrectionOf(magnetic_declination, well_head,
                                                crs_id, gk_zone_index),
                         magnetic_declination)
     IN /\ zc = 0 \/ zone_calls < MaxZoneCalls
        /\ zone_calls' = zone_calls + zc
        /\ ret' = [op |-> "get_export_array", arg |-> 0, val |-> result_arr]
        /\ incl_data' = [i \in 1..Len(incl_data) |->
                           [incl_data[i] EXCEPT ![az + 1] = result_arr[i][az + 1]]]
  /\ UNCHANGED <<rev, phase, raised, args, well_head, crs_id, processing_type,
                 magnetic_declination, gk_zone_index, gk_crs_id, proc_runs>>

\* the inclinometry file: export_inclination_file with get_export_array in
\* the old revision, create_inclinometry_txt_file in the core revision.  The
\* plugin exports after processing(), when the zone of the head is cached
\* unless it is 0.
ExportInclination ==
  /\ phase = "processed"
  /\ LET zone == ZoneIndexOf(well_head, crs_id)
         zc == IF rev = "old"
               THEN ZoneCallsOld(gk_zone_index, zone,
                                 ExportZoneReads(processing_type, Shape0(incl_data)))
               ELSE 0
     IN /\ zc = 0 \/ zone_calls < MaxZoneCalls
        /\ zone_calls' = zone_calls + zc
        /\ ret' = [op |-> "get_export_array", arg |-> 0,
                   val |-> get_export_array(
                             processing_type, incl_data,
                             TotalAngleCorrectionOf(magnetic_declination, well_head,
                                                    crs_id, gk_zone_index),
                             magnetic_declination)]
  /\ UNCHANGED <<rev, phase, raised, args, well_fields, proc_runs>>

\* the horizontal trace: in the old revision columns 3 and 4 of a second
\* get_export_array(), in the core revision x_global and y_global of every
\* record of the store
ExportHorizontalTrace ==
  /\ phase = "processed"
  /\ LET zone == ZoneIndexOf(well_head, crs_id)
         n == Shape0(incl_data)
         zc == IF rev = "old"
               THEN ZoneCallsOld(gk_zone_index, zone,
                                 IF processing_type = MD_TYPE THEN n ELSE 0)
               ELSE 0
     IN /\ zc = 0 \/ zone_calls < MaxZoneCalls
        /\ zone_calls' = zone_calls + zc
        /\ ret' = [op |-> "horizontal_trace", arg |-> gk_crs_id,
                   val |-> horizontal_trace(incl_data)]
  /\ UNCHANGED <<rev, phase, raised, args, well_fields, proc_runs>>

Next ==
  \/ Construct
  \/ Processing
  \/ Interpolate
  \/ ExportPoints
  \/ ReadZoneIndex
  \/ ReadCrsId
  \/ ReadMeridianCorrection
  \/ ReadTotalAngleCorrection
  \/ ExportInclination
  \/ ExportHorizontalTrace

Spec == Init /\ [][Next]_vars

\* ------------------------------------------------------------------------
\* The core revision with its store in place
\* ------------------------------------------------------------------------
\* The core revision's constructor cannot get past the allocation of the
\* store (WellInit).  Its methods are functions of the fields of a Well; this
\* specification starts them on the fields the rest of the constructor body
\* produces on a store of nine columns: the column copy, the two zone
\* resolutions and one run of processing().
CoreWell(site, type, data) ==
  /\ rev = "core"
  /\ phase = "processed"
  /\ raised = "none"
  /\ args = CtorArgs(site, type, data)
  /\ well_head = HeadOf(site)
  /\ crs_id = site.crs_id
  /\ processing_type = type
  /\ magnetic_declination = DeclinationFor(type, site.declination)
  /\ gk_zone_index = ZoneIndexOf(HeadOf(site), site.crs_id)
  /\ gk_crs_id = CrsIdOf(ZoneIndexOf(HeadOf(site), site.crs_id))
  /\ incl_data = processing("core", type, StoreInit(type, data, site.altitude),
                            HeadOf(site), site.crs_id,
                            DeclinationFor(type, site.declination))
  /\ zone_calls = 2
  /\ proc_runs = 1
  /\ ret = NoRet

InitCore ==
  \E site \in Sites, type \in {MD_TYPE, XY_TYPE} : \E data \in DataFor(type) :
    CoreWell(site, type, data)

MethodSpec == (Init \/ InitCore) /\ [][Next]_vars

\* ------------------------------------------------------------------------
\* The angle functions on their own
\* ------------------------------------------------------------------------
\* get_result_azimuth is static and get_middle_angle reads no field of the
\* Well: this specification draws their arguments and applies them.

\* arguments of get_result_azimuth, in ticks: whole turns, whole degrees and
\* tenths on both sides of zero, and the smallest values next to zero
AzimuthInputs ==
  {Deg(-720), Deg(-360), Deg(-350), Tenths(-3584), Deg(-10), Tenths(-16), -1,
   0, 1, Tenths(16), Deg(10), Deg(180), Tenths(3584), Deg(359), Deg(360),
   Deg(370), Deg(720)}

Periods == {-2, -1, 0, 1, 2}

\* arguments of get_middle_angle, in ticks, all in [0, 360): whole degrees
AngleInputs ==
  {0, Deg(10), Deg(90), Deg(170), Deg(180), Deg(190), Deg(200), Deg(350),
   Deg(359)}

AzimuthCalls == [az_value : AzimuthInputs, k : Periods]

\* pairs of whole degrees, and the readings 1.6 and 358.4 on the two sides
\* of north
MiddleCalls ==
  [alpha : AngleInputs, beta : AngleInputs]
    \cup {[alpha |-> Tenths(16), beta |-> Tenths(3584)],
          [alpha |-> Tenths(3584), beta |-> Tenths(16)]}

AngleInit ==
  /\ rev \in {"old", "core"}
  /\ phase = "absent"
  /\ raised = "none"
  /\ args \in AzimuthCalls \cup MiddleCalls
  /\ well_head = Unset
  /\ crs_id = Unset
  /\ processing_type = Unset
  /\ magnetic_declination = Unset
  /\ incl_data = << >>
  /\ gk_zone_index = Unset
  /\ gk_crs_id = Unset
  /\ zone_calls = 0
  /\ proc_runs = 0
  /\ ret = NoRet

ResultAzimuth ==
  /\ args \in AzimuthCalls
  /\ ret' = [op |-> "get_result_azimuth", arg |-> args.az_value,
             val |-> get_result_azimuth(args.az_value)]
  /\ UNCHANGED <<rev, phase, raised, args, well_fields, zone_calls, proc_runs>>

MiddleAngle ==
  /\ args \in MiddleCalls
  /\ ret' = [op |-> "get_middle_angle", arg |-> <<args.alpha, args.beta>>,
             val |-> get_middle_angle(args.alpha, args.beta)]
  /\ UNCHANGED <<rev, phase, raised, args, well_fields, zone_calls, proc_runs>>

AngleNext ==
  \/ ResultAzimuth
  \/ MiddleAngle

AngleSpec == AngleInit /\ [][AngleNext]_vars

\* ------------------------------------------------------------------------
\* Properties
\* ------------------------------------------------------------------------
Processed == phase = "processed"

Interpolated == Alive /\ ret.op = "interpolate_data"

LastRow == Shape0(incl_data) - 1

NonDecreasing(arr) ==
  \A i \in 0..(Shape0(arr) - 2) : Cell(arr, i, md) <= Cell(arr, i + 1, md)

StrictlyIncreasing(arr) ==
  \A i \in 0..(Shape0(arr) - 2) : Cell(arr, i, md) < Cell(arr, i + 1, md)

Below(arr, v) == \A i \in 0..(Shape0(arr) - 1) : v < Cell(arr, i, md)

Above(arr, v) == \A i \in 0..(Shape0(arr) - 1) : v > Cell(arr, i, md)

\* the value a returned record holds for the k-th projection column: a
\* five-value record holds it at k, a nine-value record at the column's index
ResultColumn(value, k) ==
  IF Len(value) = Len(column_indexes) THEN value[k]
  ELSE value[column_indexes[k] + 1]

RECURSIVE PairsInRange(_, _, _)
PairsInRange(points_data, arr, k) ==
  IF k > Len(points_data) THEN << >>
  ELSE (IF Below(arr, points_data[k][2]) \/ Above(arr, points_data[k][2])
        THEN << >> ELSE <<points_data[k]>>)
       \o PairsInRange(points_data, arr, k + 1)

\* C1: the interpolation-at-points export does not raise and yields, in input
\* order, one six-field row (the label and five values, the first of them
\* the pair's measured depth) for each pair inside [min_md, max_md] and no
\* row for a pair outside it.
C1_PointsExportRows ==
  (Processed /\ ret.op = "points") =>
     /\ ret.val.raised = "none"
     /\ LET wanted == PairsInRange(ret.arg, incl_data, 1)
            rows == ret.val.rows
        IN /\ Len(rows) = Len(wanted)
           /\ \A k \in 1..Len(rows) :
                /\ rows[k].label = wanted[k][1]
                /\ Len(rows[k].fields) = 5
                /\ rows[k].fields[1].d # 0
                /\ rows[k].fields[1].n = wanted[k][2] * rows[k].fields[1].d

\* C2: interpolate_data with md_value below the smallest or above the largest
\* measured depth returns the empty "no value" result and does not raise, in
\* both revisions.
C2_OutOfRangeNoValue ==
  (Interpolated /\ (Below(incl_data, ret.arg) \/ Above(incl_data, ret.arg))) =>
     ret.val = Returned(NoValue)

C2_Witness ==
  /\ Interpolated
  /\ rev = "old"
  /\ Processed
  /\ Shape0(incl_data) >= 2
  /\ Below(incl_data, ret.arg)
  /\ ret.val = Returned(NoValue)

\* C3: on a store in non-decreasing measured-depth order, interpolate_data at
\* the measured depth of some row (several rows may share it) returns the
\* five projection columns of a row with that measured depth, verbatim.
C3_ExactMatchVerbatim ==
  (Interpolated /\ Processed /\ NonDecreasing(incl_data)
     /\ \E i \in 0..LastRow : Cell(incl_data, i, md) = ret.arg) =>
     /\ ret.val.raised = "none"
     /\ \E i \in 0..LastRow :
          /\ Cell(incl_data, i, md) = ret.arg
          /\ ret.val.value = TakeRow(incl_data, i, column_indexes)

\* C4: on a store in strictly increasing measured-depth order, interpolate_data
\* at md_value strictly between adjacent stations top and bottom returns, for
\* each projection column, top + (md_value - md[top]) / (md[bottom] - md[top])
\* * (bottom - top), and the returned measured depth is md_value.
C4_LinearBetweenNeighbours ==
  (Interpolated /\ Processed /\ StrictlyIncreasing(incl_data)) =>
     \A i \in 0..(LastRow - 1) :
       (Cell(incl_data, i, md) < ret.arg /\ ret.arg < Cell(incl_data, i + 1, md)) =>
          /\ ret.val.raised = "none"
          /\ Len(ret.val.value) >= Len(column_indexes)
          /\ \A k \in 1..Len(column_indexes) :
               LET r == ResultColumn(ret.val.value, k)
                   t == Cell(incl_data, i, column_indexes[k])
                   u == Cell(incl_data, i + 1, column_indexes[k])
                   a == ret.arg - Cell(incl_data, i, md)
                   b == Cell(incl_data, i + 1, md) - Cell(incl_data, i, md)
               IN /\ r.d # 0
                  /\ r.n * b = (t * b + a * (u - t)) * r.d
          /\ ResultColumn(ret.val.value, 1).n = ret.arg * ResultColumn(ret.val.value, 1).d

C4_Witness ==
  /\ Interpolated
  /\ Processed
  /\ rev = "core"
  /\ processing_type = MD_TYPE
  /\ Shape0(incl_data) = 3
  /\ StrictlyIncreasing(incl_data)
  /\ Cell(incl_data, 1, md) < ret.arg
  /\ ret.arg < Cell(incl_data, 2, md)
  /\ Cell(incl_data, 1, x_global) # Cell(incl_data, 2, x_global)
  /\ ret.val.raised = "none"
  /\ Len(ret.val.value) > 0

\* C5: a constructor call with a mode other than "MD" and "XYZ" raises
\* DataTypeError, and when it does no store has been allocated, no transform
\* was made for the zone and no integration has run, in both revisions.
C5_BadModeRaisesFirst ==
  /\ (phase # "absent" /\ args.processing_type \notin {MD_TYPE, XY_TYPE}) =>
        raised = "DataTypeError"
  /\ raised = "DataTypeError" =>
        /\ phase = "raised"
        /\ incl_data = << >>
        /\ zone_calls = 0
        /\ proc_runs = 0
        /\ gk_zone_index = Unset
        /\ gk_crs_id = Unset

C5_Witness ==
  /\ phase = "raised"
  /\ raised = "DataTypeError"
  /\ args.processing_type = "LAS"
  /\ Len(args.inclination_data) >= 2

\* C6: when the constructor is called with a recognized mode and at least one
\* station, it returns a processed Well: one nine-field row per station and
\* the integration run exactly once.
C6_ConstructorStep ==
  (phase = "absent" /\ phase' # "absent"
     /\ args'.processing_type \in {MD_TYPE, XY_TYPE}
     /\ Len(args'.inclination_data) >= 1) =>
     /\ raised' = "none"
     /\ phase' = "processed"
     /\ proc_runs' = 1
     /\ Shape0(incl_data') = Len(args'.inclination_data)
     /\ \A i \in 1..Len(incl_data') : Len(incl_data'[i]) = 9

C6_ConstructorProcesses == [][C6_ConstructorStep]_vars

\* C7: the zone index and the zone CRS id are memoized: every read returns
\* the same value and the transform for zone resolution is invoked at most
\* once per Well, also for a head whose zone index is 0.
C7_ZoneMemoized ==
  Alive =>
     /\ zone_calls <= 1
     /\ ret.op = "gk_zone_index" => ret.val = ZoneIndexOf(well_head, crs_id)
     /\ ret.op = "gk_crs_id" => ret.val = CrsIdOf(ZoneIndexOf(well_head, crs_id))

BaseLongitude ==
  transform_xy_coordinates(well_head[1], well_head[2], crs_id, PULKOVO1942_ID)[1]

\* C8: for every base longitude of the head, negative ones included, the zone
\* index is floor((x_base + 6) / 6) and the zone CRS id is 28400 + zone index.
C8_ZoneIsFloor ==
  Alive =>
     /\ ret.op = "gk_zone_index" => ret.val = (BaseLongitude + 6) \div 6
     /\ ret.op = "gk_crs_id" => ret.val = 28400 + (BaseLongitude + 6) \div 6

\* C9: after processing in either mode, row 0 has the head altitude, the head
\* position transformed from the source CRS into the zone CRS as x_global and
\* y_global, and 0 as x_local, y_local and depth.
C9_RowZeroIsHead ==
  Processed =>
     /\ Cell(incl_data, 0, altitude) = args.altitude
     /\ <<Cell(incl_data, 0, x_global), Cell(incl_data, 0, y_global)>>
          = transform_xy_coordinates(args.x, args.y, args.crs_id,
                                     CrsIdOf(ZoneIndexOf(<<args.x, args.y>>, args.crs_id)))
     /\ Cell(incl_data, 0, x_local) = 0
     /\ Cell(incl_data, 0, y_local) = 0
     /\ Cell(incl_data, 0, depth) = 0

C9_Witness ==
  /\ Processed
  /\ rev = "old"
  /\ processing_type = XY_TYPE
  /\ Shape0(incl_data) = 1
  /\ args.inclination_data[1][3] # 0
  /\ Cell(incl_data, 0, depth) = 0
  /\ Cell(incl_data, 0, x_global) # args.x

\* C10: after processing, every row has altitude = head altitude - depth, in
\* both modes and both revisions.
C10_AltitudeIsHeadMinusDepth ==
  Processed =>
     \A i \in 0..LastRow :
        Cell(incl_data, i, altitude) = args.altitude - Cell(incl_data, i, depth)

\* a value of the grid: what a float argument can be
OnGrid(v) == Fl(v) = v

\* C11: get_result_azimuth returns r with 0 <= r < 360 for every input,
\* negative values and whole turns included, and returns the same value for
\* x and for x + 360 * k, k any integer.
C11_AzimuthRangeAndPeriod ==
  ret.op = "get_result_azimuth" =>
     /\ 0 <= ret.val
     /\ ret.val < Deg(360)
     /\ OnGrid(ret.arg + Deg(360) * args.k) =>
           get_result_azimuth(ret.arg + Deg(360) * args.k) = ret.val

\* distance of two angles around the circle, in ticks
CircularDistance(a, b) ==
  LET d == (a - b) % Deg(360)
  IN Min2(d, Deg(360) - d)

\* C12: for alpha and beta in [0, 360), get_middle_angle returns a value in
\* [0, 360) whose circular distances to alpha and to beta are equal and at
\* most 90 degrees: the midpoint of the shorter arc.
C12_MiddleOfShorterArc ==
  ret.op = "get_middle_angle" =>
     /\ 0 <= ret.val
     /\ ret.val < Deg(360)
     /\ CircularDistance(ret.val, ret.arg[1]) = CircularDistance(ret.val, ret.arg[2])
     /\ CircularDistance(ret.val, ret.arg[1]) <= Deg(90)

\* C13: get_middle_angle(a, b) = get_middle_angle(b, a) for all a and b, on
\* the arithmetic-mean branch and on the seam-crossing branch.
C13_MiddleAngleSymmetric ==
  ret.op = "get_middle_angle" =>
     ret.val = get_middle_angle(ret.arg[2], ret.arg[1])

C13_Witness ==
  /\ ret.op = "get_middle_angle"
  /\ ret.arg = <<Deg(350), Deg(10)>>
  /\ ret.val = 0

\* the meridian correction of the head, from the constructor's arguments
HeadMeridianCorrection ==
  MeridianCorrectionOf(<<args.x, args.y>>, args.crs_id,
                       ZoneIndexOf(<<args.x, args.y>>, args.crs_id))

Exported == Processed /\ ret.op = "get_export_array"

\* a and b are the same direction: they differ by whole turns
SameDirection(a, b) == (a - b) % 360 = 0

\* C14: in survey-angle mode the exported azimuth of every row is the store's
\* azimuth minus the total angle correction plus the declination, brought
\* into [0, 360); for a store that processing() has integrated from the raw
\* input it is therefore the raw azimuth plus the declination, whatever the
\* meridian correction.  In displacement mode the exported azimuth column is
\* the store's column.
C14_ExportAzimuth ==
  Exported =>
     /\ Len(ret.val) = Shape0(incl_data)
     /\ \A i \in 0..LastRow :
          LET exported_az == ret.val[i + 1][3]
              internal_az == Cell(incl_data, i, az)
              total == args.magnetic_declination - HeadMeridianCorrection
          IN IF args.processing_type = MD_TYPE
             THEN /\ 0 <= exported_az
                  /\ exported_az < 360
                  /\ SameDirection(exported_az,
                                   internal_az - total + args.magnetic_declination)
                  /\ proc_runs = 1 =>
                        SameDirection(exported_az,
                                      args.inclination_data[i + 1][3]
                                        + args.magnetic_declination)
             ELSE exported_az = internal_az

C14_Witness ==
  /\ Exported
  /\ rev = "old"
  /\ args.processing_type = MD_TYPE
  /\ proc_runs = 1
  /\ Shape0(incl_data) >= 2
  /\ args.magnetic_declination # 0
  /\ HeadMeridianCorrection # 0
  /\ ret.val[2][3] # Cell(incl_data, 1, az)
  /\ ret.val[2][3] = (args.inclination_data[2][3] + args.magnetic_declination) % 360

\* C15: after displacement-mode processing of raw rows (x, y, z), row 0 has
\* x_local = y_local = depth = 0 and measured depth 0, every row holds its
\* raw coordinates minus those of row 0, and the measured depth of row i is
\* that of row i - 1 plus the length of the difference of the two rows, so
\* the measured depth never decreases along the store.
C15_DisplacementStore ==
  (Processed /\ args.processing_type = XY_TYPE) =>
     LET raw == args.inclination_data
     IN /\ Shape0(incl_data) = Len(raw)
        /\ Cell(incl_data, 0, md) = 0
        /\ Cell(incl_data, 0, x_local) = 0
        /\ Cell(incl_data, 0, y_local) = 0
        /\ Cell(incl_data, 0, depth) = 0
        /\ \A i \in 0..LastRow :
             /\ Cell(incl_data, i, x_local) = raw[i + 1][1] - raw[1][1]
             /\ Cell(incl_data, i, y_local) = raw[i + 1][2] - raw[1][2]
             /\ Cell(incl_data, i, depth) = raw[i + 1][3] - raw[1][3]
        /\ \A i \in 1..LastRow :
             LET step == Cell(incl_data, i, md) - Cell(incl_data, i - 1, md)
                 dx == raw[i + 1][1] - raw[i][1]
                 dy == raw[i + 1][2] - raw[i][2]
                 dz == raw[i + 1][3] - raw[i][3]
             IN /\ step >= 0
                /\ step * step = dx * dx + dy * dy + dz * dz
        /\ NonDecreasing(incl_data)

C15_Witness ==
  /\ Processed
  /\ rev = "old"
  /\ args.processing_type = XY_TYPE
  /\ args.inclination_data = <<(<<10, 10, 20>>), (<<40, 50, 20>>), (<<40, 50, 140>>)>>
  /\ Cell(incl_data, 1, md) = 50
  /\ Cell(incl_data, 2, md) = 170

\* C16: a Well constructed in displacement mode has magnetic_declination 0
\* whatever declination was passed, and its total_angle_correction is minus
\* the meridian correction; a Well constructed in survey-angle mode keeps the
\* declination passed and its total_angle_correction is that declination
\* minus the meridian correction.
C16_DeclinationByMode ==
  Alive =>
     /\ args.processing_type = XY_TYPE =>
           /\ magnetic_declination = 0
           /\ ret.op = "total_angle_correction" =>
                 ret.val = 0 - HeadMeridianCorrection
     /\ args.processing_type = MD_TYPE =>
           /\ magnetic_declination = args.magnetic_declination
           /\ ret.op = "total_angle_correction" =>
                 ret.val = args.magnetic_declination - HeadMeridianCorrection

C16_Witness ==
  /\ Alive
  /\ rev = "old"
  /\ args.processing_type = XY_TYPE
  /\ args.magnetic_declination # 0
  /\ magnetic_declination = 0
  /\ ret.op = "total_angle_correction"
  /\ ret.val # 0
  /\ ret.val = 0 - HeadMeridianCorrection

QueryOps ==
  {"interpolate_data", "points", "get_export_array", "horizontal_trace",
   "meridian_correction", "total_angle_correction", "gk_zone_index", "gk_crs_id"}

\* the store as one run of processing() leaves it
IntegratedOnce ==
  processing(rev, args.processing_type,
             StoreInit(args.processing_type, args.inclination_data, args.altitude),
             <<args.x, args.y, args.altitude>>, args.crs_id,
             DeclinationFor(args.processing_type, args.magnetic_declination))

C17_QueryStep ==
  (Processed /\ ret'.op \in QueryOps) => incl_data' = incl_data

\* C17: on a processed Well every query (interpolate_data, the export of the
\* inclinometry file, the horizontal trace, the interpolation at points and
\* the meridian_correction, total_angle_correction and zone accessors) leaves
\* the station store as it was: every cell, the row count and the row order.
C17_QueriesArePureReads == [][C17_QueryStep]_vars

C17_Witness ==
  /\ Exported
  /\ args.processing_type = MD_TYPE
  /\ proc_runs = 1
  /\ Shape0(incl_data) = 3
  /\ ret.val[3][3] # Cell(incl_data, 2, az)
  /\ incl_data = IntegratedOnce

HeadInZone ==
  transform_xy_coordinates(args.x, args.y, args.crs_id,
                           CrsIdOf(ZoneIndexOf(<<args.x, args.y>>, args.crs_id)))

\* C19: in survey-angle integration, between two consecutive stations that
\* both have inclination 0 the local offsets do not change, the global
\* coordinates are the head's zone coordinates plus those offsets, the depth
\* grows by the difference of the measured depths and the altitude is the
\* head altitude minus the depth, whatever the azimuths and corrections.
C19_VerticalInterval ==
  (Processed /\ args.processing_type = MD_TYPE) =>
     \A i \in 1..LastRow :
        (Cell(incl_data, i - 1, incl) = 0 /\ Cell(incl_data, i, incl) = 0) =>
           /\ Cell(incl_data, i, x_local) = Cell(incl_data, i - 1, x_local)
           /\ Cell(incl_data, i, y_local) = Cell(incl_data, i - 1, y_local)
           /\ Cell(incl_data, i, x_global) = HeadInZone[1] + Cell(incl_data, i, x_local)
           /\ Cell(incl_data, i, y_global) = HeadInZone[2] + Cell(incl_data, i, y_local)
           /\ Cell(incl_data, i, depth)
                = Cell(incl_data, i - 1, depth)
                    + (Cell(incl_data, i, md) - Cell(incl_data, i - 1, md))
           /\ Cell(incl_data, i, altitude) = args.altitude - Cell(incl_data, i, depth)

C19_Witness ==
  /\ Processed
  /\ rev = "old"
  /\ args.processing_type = MD_TYPE
  /\ args.inclination_data = <<(<<0, 60, 350>>), (<<100, 0, 10>>), (<<200, 0, 350>>)>>
  /\ args.magnetic_declination # 0
  /\ Cell(incl_data, 1, x_local) # 0
  /\ Cell(incl_data, 2, x_local) = Cell(incl_data, 1, x_local)
  /\ Cell(incl_data, 2, depth) = Cell(incl_data, 1, depth) + 100
  /\ Cell(incl_data, 2, az) # Cell(incl_data, 1, az)

C20_SecondRunStep ==
  (phase = "processed" /\ ret'.op = "processing") => incl_data' = incl_data

\* C20: processing() on a processed Well leaves every column of the store
\* unchanged, in survey-angle and in displacement mode, so that the azimuth
\* correction is applied to each row once overall.
C20_ProcessingIdempotent == [][C20_SecondRunStep]_vars

====
